---- MODULE Spec2Model ----
(***************************************************************************)
(* pdf2md: task lifecycle, cache registry and artifact store.              *)
(*                                                                         *)
(* Strings the code inspects (titles, cache keys, file names, path         *)
(* segments) are sequences of characters; a path is a sequence of          *)
(* segments.  Status values and program counters are enumerations.         *)
(***************************************************************************)
EXTENDS Integers, Sequences, FiniteSets, TLC

\* ------------------------------------------------------------------ bounds
\* Number of task ids uuid4 hands out in one run.
MaxTasks == 2
\* Number of submissions (POST /api/convert) that may be in flight at once.
MaxClients == 1

\* ------------------------------------------------------------- python None
NULL == <<"None">>

\* ----------------------------------------------------------------- strings
LowerChar(c) ==
    CASE c = "A" -> "a" [] c = "D" -> "d" [] c = "F" -> "f" [] c = "G" -> "g"
      [] c = "J" -> "j" [] c = "N" -> "n" [] c = "P" -> "p" [] c = "R" -> "r"
      [] OTHER -> c

\* str.lower()
Lower(s) == [i \in 1..Len(s) |-> LowerChar(s[i])]

\* str.endswith(suffix)
EndsWith(s, suf) ==
    /\ Len(s) >= Len(suf)
    /\ SubSeq(s, Len(s) - Len(suf) + 1, Len(s)) = suf

RECURSIVE LStrip(_)
LStrip(s) == IF s # <<>> /\ Head(s) = " " THEN LStrip(Tail(s)) ELSE s

RECURSIVE RStrip(_)
RStrip(s) ==
    IF s # <<>> /\ s[Len(s)] = " " THEN RStrip(SubSeq(s, 1, Len(s) - 1)) ELSE s

\* str.strip()
Strip(s) == RStrip(LStrip(s))

\* str.rfind(c) + 1: position of the last occurrence of character c in s,
\* 0 when absent.
RFind(s, c) ==
    LET at == {i \in 1..Len(s) : s[i] = c}
    IN  IF at = {} THEN 0 ELSE CHOOSE i \in at : \A j \in at : j <= i

\* str.split('/')
RECURSIVE SplitSlash(_)
SplitSlash(s) ==
    LET i == RFind(s, "/")
    IN  IF i = 0 THEN <<s>>
        ELSE Append(SplitSlash(SubSeq(s, 1, i - 1)), SubSeq(s, i + 1, Len(s)))

\* ------------------------------------------------------------ task statuses
PENDING == "pending"
PROCESSING == "processing"
DONE == "done"
ERROR == "error"

TaskStatus == {PENDING, PROCESSING, DONE, ERROR}

\* ----------------------------------------------------------------- task ids
Digit == <<"1", "2", "3", "4", "5", "6", "7", "8", "9">>

\* uuid4 handing out the same id again and again.
uuid4_repeats(n) == <<"t", Digit[1]>>

\* str(uuid.uuid4()): the n-th identifier handed out; never repeats.
uuid4(n) == <<"t", Digit[n]>>

Ids == {uuid4(n) : n \in 1..MaxTasks}

Clients == 1..MaxClients

\* --------------------------------------------------------------- documents
TitleR == <<"R">>
TitleHashZ == <<"h", "a", "s", "h", ":", "c", "3">>

Pdf == <<".", "p", "d", "f">>

\* An uploaded file: its name (NULL when the part has none) and its bytes.
Uploads ==
    { [filename |-> <<"a">> \o Pdf, bytes |-> <<"x">>],
      [filename |-> <<"b", ".", "P", "D", "F">>, bytes |-> <<"y">>],
      [filename |-> <<"c">> \o Pdf, bytes |-> <<"z">>],
      [filename |-> <<"d">> \o Pdf, bytes |-> <<"w">>],
      [filename |-> <<"a", ".", "t", "x", "t">>, bytes |-> <<"x">>],
      [filename |-> NULL, bytes |-> <<"x">>],
      [filename |-> <<>>, bytes |-> <<"x">>],
      [filename |-> <<"a">> \o Pdf, bytes |-> <<>>] }

\* pypdf: reader.metadata.title of the bytes, NULL when the metadata has no
\* /Title or the bytes cannot be read.
MetadataTitle(pdf_bytes) ==
    CASE pdf_bytes = <<"x">> -> <<" ", "R", " ">>
      [] pdf_bytes = <<"y">> -> TitleR
      [] pdf_bytes = <<"w">> -> TitleHashZ
      [] OTHER -> NULL

\* converter.get_pdf_title
get_pdf_title(pdf_bytes) ==
    LET meta == MetadataTitle(pdf_bytes)
    IN  IF meta # NULL /\ meta # <<>>
        THEN LET title == Strip(meta)
             IN  IF title # <<>> THEN title ELSE NULL
        ELSE NULL

\* converter.get_pdf_hash: hexdigest()[:16] of the bytes, abbreviated to two
\* hex characters for the byte strings of Uploads.
get_pdf_hash(pdf_bytes) ==
    CASE pdf_bytes = <<"x">> -> <<"a", "1">>
      [] pdf_bytes = <<"y">> -> <<"b", "2">>
      [] pdf_bytes = <<"z">> -> <<"c", "3">>
      [] pdf_bytes = <<"w">> -> <<"d", "4">>
      [] OTHER -> <<"f", "6">>

HashPrefix == <<"h", "a", "s", "h", ":">>

\* f"hash:{content_hash}"
HashKey(content_hash) == HashPrefix \o content_hash

Untitled == <<"U", "n", "t", "i", "t", "l", "e", "d">>

\* ------------------------------------------------------------ storage volume
\* Paths are sequences of segments below the project directory, which holds
\* cache.db (cache.DATABASE_PATH) and storage/output (local.STORAGE_DIR).
DATABASE_PATH == << <<"c", "a", "c", "h", "e", ".", "d", "b">> >>

STORAGE_DIR == << <<"s", "t", "o", "r", "a", "g", "e">>, <<"o", "u", "t", "p", "u", "t">> >>

OutputMd == <<"o", "u", "t", "p", "u", "t", ".", "m", "d">>

OutputArtifacts ==
    <<"o", "u", "t", "p", "u", "t", "_", "a", "r", "t", "i", "f", "a", "c", "t", "s">>

DotDot == <<".", ".">>

\* An absent file, and the None a path-returning function answers.
NoFile == [present |-> FALSE, links |-> <<>>]
NoPath == << <<"None">> >>

\* pathlib: Path / str.  An absolute right operand replaces the left one;
\* empty and "." segments are dropped, ".." segments are kept.
PathJoin(base, name) ==
    LET segs == SplitSlash(name)
        keep == SelectSeq(segs, LAMBDA g : g # <<>> /\ g # <<".">>)
    IN  IF name # <<>> /\ Head(name) = "/" THEN keep ELSE base \o keep

\* local.get_task_dir
get_task_dir(task_id) == PathJoin(STORAGE_DIR, task_id)

EmptyDir == [dir |-> FALSE, md |-> NoFile, adir |-> FALSE, arts |-> {}]

\* Directories and regular files of the volume in storage state fs.
IsDir(fs, p) ==
    \/ Len(p) <= Len(STORAGE_DIR) /\ p = SubSeq(STORAGE_DIR, 1, Len(p))
    \/ /\ Len(p) = Len(STORAGE_DIR) + 1
       /\ SubSeq(p, 1, Len(STORAGE_DIR)) = STORAGE_DIR
       /\ p[Len(p)] \in DOMAIN fs
       /\ fs[p[Len(p)]].dir
    \/ /\ Len(p) = Len(STORAGE_DIR) + 2
       /\ SubSeq(p, 1, Len(STORAGE_DIR)) = STORAGE_DIR
       /\ p[Len(p)] = OutputArtifacts
       /\ p[Len(p) - 1] \in DOMAIN fs
       /\ fs[p[Len(p) - 1]].adir

IsFile(fs, p) ==
    \/ p = DATABASE_PATH
    \/ /\ Len(p) = Len(STORAGE_DIR) + 2
       /\ SubSeq(p, 1, Len(STORAGE_DIR)) = STORAGE_DIR
       /\ p[Len(p)] = OutputMd
       /\ p[Len(p) - 1] \in DOMAIN fs
       /\ fs[p[Len(p) - 1]].md.present
    \/ /\ Len(p) = Len(STORAGE_DIR) + 3
       /\ SubSeq(p, 1, Len(STORAGE_DIR)) = STORAGE_DIR
       /\ p[Len(p) - 1] = OutputArtifacts
       /\ p[Len(p) - 2] \in DOMAIN fs
       /\ p[Len(p)] \in fs[p[Len(p) - 2]].arts

\* Names of the regular files directly inside directory q (iterdir + is_file).
DirFiles(fs, q) ==
    LET names == {DATABASE_PATH[1], OutputMd} \cup UNION {fs[t].arts : t \in DOMAIN fs}
    IN  {n \in names : IsFile(fs, Append(q, n))}

\* The node a path names once the operating system has followed it: every
\* segment but the last must lead to a directory, ".." leads to the parent.
RECURSIVE Walk(_, _, _)
Walk(fs, cur, rest) ==
    IF rest = <<>> THEN cur
    ELSE IF ~IsDir(fs, cur) THEN NoPath
    ELSE IF Head(rest) = DotDot
         THEN Walk(fs, IF cur = <<>> THEN <<>> ELSE SubSeq(cur, 1, Len(cur) - 1), Tail(rest))
         ELSE Walk(fs, Append(cur, Head(rest)), Tail(rest))

Resolve(fs, p) == Walk(fs, <<>>, p)

\* Path.exists()
PathExists(fs, p) ==
    LET q == Resolve(fs, p) IN q # NoPath /\ (IsDir(fs, q) \/ IsFile(fs, q))

\* Path.is_file()
PathIsFile(fs, p) ==
    LET q == Resolve(fs, p) IN q # NoPath /\ IsFile(fs, q)

\* task_has_markdown without the look at the volume: every cache row counts.
task_has_markdown_unchecked(fs, task_id) == TRUE

\* local.task_has_markdown
task_has_markdown(fs, task_id) == PathExists(fs, PathJoin(get_task_dir(task_id), OutputMd))

\* Path.read_text() of a file of the volume; only output.md files carry text.
ReadText(fs, p) ==
    LET q == Resolve(fs, p)
    IN  IF q # NoPath /\ IsFile(fs, q) /\ q[Len(q)] = OutputMd /\ q # DATABASE_PATH
        THEN fs[q[Len(q) - 1]].md
        ELSE NoFile

\* local.get_markdown
get_markdown(fs, task_id) ==
    LET md_path == PathJoin(get_task_dir(task_id), OutputMd)
    IN  IF PathExists(fs, md_path) THEN ReadText(fs, md_path) ELSE NoFile

\* local.get_image_path
get_image_path(fs, task_id, filename) ==
    LET task_dir == get_task_dir(task_id)
        image_path == PathJoin(PathJoin(task_dir, OutputArtifacts), filename)
    IN  IF PathExists(fs, image_path) THEN image_path ELSE NoPath

\* PurePath.suffix
Suffix(name) ==
    LET i == RFind(name, ".")
    IN  IF i > 1 /\ i < Len(name) THEN SubSeq(name, i, Len(name)) ELSE <<>>

ImageSuffixes ==
    { <<".", "p", "n", "g">>, <<".", "j", "p", "g">>, <<".", "j", "p", "e", "g">>,
      <<".", "g", "i", "f">>, <<".", "w", "e", "b", "p">> }

ApiImages == <<"/", "a", "p", "i", "/", "i", "m", "a", "g", "e", "s", "/">>
ImagesSlash == <<"i", "m", "a", "g", "e", "s", "/">>

\* The substitution of create_markdown_zip on one link:
\* !\[([^\]]*)\]\(/api/images/[^/]+/([^)]+)\)  ->  ![\1](images/\2)
ZipLink(l) ==
    LET t == l.target
        n == Len(ApiImages)
        rest == SubSeq(t, n + 1, Len(t))
        j == IF \E k \in 1..Len(rest) : rest[k] = "/"
             THEN CHOOSE k \in 1..Len(rest) :
                      rest[k] = "/" /\ \A m \in 1..(k - 1) : rest[m] # "/"
             ELSE 0
    IN  IF /\ l.img
           /\ Len(t) > n
           /\ SubSeq(t, 1, n) = ApiImages
           /\ j > 1
           /\ j < Len(rest)
        THEN [l EXCEPT !.target = ImagesSlash \o SubSeq(rest, j + 1, Len(rest))]
        ELSE l

NoZip == [present |-> FALSE, md |-> <<>>, images |-> {}]

\* create_markdown_zip comparing the suffix without lower().
create_markdown_zip_case_sensitive(fs, task_id) ==
    LET task_dir == get_task_dir(task_id)
        md_path == PathJoin(task_dir, OutputMd)
        md_content == ReadText(fs, md_path).links
        artifacts_dir == PathJoin(task_dir, OutputArtifacts)
        q == Resolve(fs, artifacts_dir)
    IN  IF ~PathExists(fs, md_path) THEN NoZip
        ELSE [present |-> TRUE,
              md |-> [i \in 1..Len(md_content) |-> ZipLink(md_content[i])],
              images |-> IF PathExists(fs, artifacts_dir)
                         THEN {n \in DirFiles(fs, q) : Suffix(n) \in ImageSuffixes}
                         ELSE {}]

\* local.create_markdown_zip: the text written as output.md and the names
\* written under images/.
create_markdown_zip(fs, task_id) ==
    LET task_dir == get_task_dir(task_id)
        md_path == PathJoin(task_dir, OutputMd)
        md_content == ReadText(fs, md_path).links
        artifacts_dir == PathJoin(task_dir, OutputArtifacts)
        q == Resolve(fs, artifacts_dir)
    IN  IF ~PathExists(fs, md_path) THEN NoZip
        ELSE [present |-> TRUE,
              md |-> [i \in 1..Len(md_content) |-> ZipLink(md_content[i])],
              images |-> IF PathExists(fs, artifacts_dir)
                         THEN {n \in DirFiles(fs, q) : Lower(Suffix(n)) \in ImageSuffixes}
                         ELSE {}]

\* local.delete_task_files (shutil.rmtree of the task directory)
delete_task_files(fs, task_id) ==
    IF task_id \in DOMAIN fs /\ fs[task_id].dir
    THEN [fs EXCEPT ![task_id] = EmptyDir]
    ELSE fs

\* ------------------------------------------------------- conversion engine
\* What docling may hand back for a document: doc.name, the links of the
\* exported markdown (image or plain, with the engine's own targets) and the
\* files it writes into output_artifacts/.
PngA == <<"a", ".", "p", "n", "g">>
JpgB == <<"b", ".", "J", "P", "G">>
TxtC == <<"c", ".", "t", "x", "t">>

EnginePath(name) == <<"/", "w", "/">> \o OutputArtifacts \o <<"/">> \o name

EngineOutcomes ==
    { [name |-> TitleR,
       links |-> << [img |-> TRUE, target |-> EnginePath(PngA)],
                    [img |-> FALSE, target |-> EnginePath(TxtC)],
                    [img |-> TRUE, target |-> OutputArtifacts \o <<"/">> \o JpgB] >>,
       arts |-> {PngA, JpgB, TxtC}],
      [name |-> <<>>, links |-> <<>>, arts |-> {}] }

\* The re.sub of convert_pdf_to_markdown on one link target:
\* \]\(([^)]+/output_artifacts/[^)]+)\)  ->  ](/api/images/{task_id}/{filename})
replace_image_path(task_id, target) ==
    LET segs == SplitSlash(target)
        hit == \E i \in 2..(Len(segs) - 1) :
                  /\ segs[i] = OutputArtifacts
                  /\ (i > 2 \/ segs[1] # <<>>)
                  /\ (i + 1 < Len(segs) \/ segs[Len(segs)] # <<>>)
        filename == segs[Len(segs)]
    IN  IF hit THEN ApiImages \o task_id \o <<"/">> \o filename ELSE target

RewriteLinks(task_id, links) ==
    [i \in 1..Len(links) |-> [links[i] EXCEPT !.target = replace_image_path(task_id, @)]]

\* ------------------------------------------------------------------ state
VARIABLES
    tasks,      \* table tasks of cache.db: id -> row
    cache,      \* table cache of cache.db: title -> output_path (a task id)
    fs,         \* storage volume: per task id, its directory
    jobs,       \* background _process_conversion jobs: task id -> frame
    reqs,       \* POST /api/convert handlers: client -> frame
    next_id,    \* how many ids uuid4 has handed out, plus one
    began       \* history: per client, the tasks that were Done for the same
                \* bytes / the same extractable title when its submission began

vars == <<tasks, cache, fs, jobs, reqs, next_id, began>>

\* datetime.now() as stored in completed_at
Stamp == <<"now">>

\* str(e) of whatever exception was caught
StrE == <<"e", "r", "r">>

NoDoc == [name |-> <<>>, links |-> <<>>, arts |-> {}]

NoResp == [code |-> 0, task_id |-> NULL, status |-> NULL, cached |-> FALSE]

NoneBegan == [same_bytes |-> {}, same_title |-> {}]

\* The tasks recorded Done whose job converted these bytes, and those whose
\* job converted other bytes with the same extractable title.
DoneFor(pdf_bytes) ==
    LET done == {t \in DOMAIN tasks \cap DOMAIN jobs : tasks[t].status = DONE}
    IN  [same_bytes |-> {t \in done : jobs[t].pdf_bytes = pdf_bytes},
         same_title |-> {t \in done :
                            /\ jobs[t].pdf_bytes # pdf_bytes
                            /\ get_pdf_title(pdf_bytes) # NULL
                            /\ get_pdf_title(jobs[t].pdf_bytes) = get_pdf_title(pdf_bytes)}]

IdleReq ==
    [pc |-> "idle", pdf_bytes |-> <<>>, cached |-> NULL, content_hash |-> NULL,
     task_id |-> NULL, resp |-> NoResp]

Init ==
    /\ tasks = <<>>
    /\ cache = <<>>
    /\ fs = [t \in Ids |-> EmptyDir]
    /\ jobs = <<>>
    /\ reqs = [c \in Clients |-> IdleReq]
    /\ next_id = 1
    /\ began = [c \in Clients |-> NoneBegan]

\* ---------------------------------------------------------------- registry
\* cache.get_cache_by_title: the output_path column of the row, NULL if none.
get_cache_by_title(db, title) == IF title \in DOMAIN db THEN db[title] ELSE NULL

\* cache.create_cache: INSERT OR REPLACE on UNIQUE(title, format)
create_cache(db, title, output_path) ==
    [k \in DOMAIN db \cup {title} |-> IF k = title THEN output_path ELSE db[k]]

\* cache.create_task
create_task(tb, task_id, seq) ==
    [i \in DOMAIN tb \cup {task_id} |->
        IF i = task_id
        THEN [status |-> PENDING, title |-> NULL, output_path |-> NoPath,
              error_message |-> NULL, created_at |-> seq, completed_at |-> NULL]
        ELSE tb[i]]

\* update_task_status stamping completed_at whatever the status.
update_task_status_always_stamps(tb, task_id, status, title, output_path, error_message) ==
    IF task_id \notin DOMAIN tb THEN tb
    ELSE [tb EXCEPT ![task_id] =
              [@ EXCEPT !.status = status, !.title = title,
                        !.output_path = output_path,
                        !.error_message = error_message,
                        !.completed_at = Stamp]]

\* cache.update_task_status: an UPDATE ... WHERE id = ? (no row, no change)
update_task_status(tb, task_id, status, title, output_path, error_message) ==
    IF task_id \notin DOMAIN tb THEN tb
    ELSE IF status \in {DONE, ERROR}
         THEN [tb EXCEPT ![task_id] =
                   [@ EXCEPT !.status = status, !.title = title,
                             !.output_path = output_path,
                             !.error_message = error_message,
                             !.completed_at = Stamp]]
         ELSE [tb EXCEPT ![task_id] = [@ EXCEPT !.status = status, !.title = title]]

\* cache.delete_old_tasks: rows whose created_at lies before the cutoff.
\* created_at is the order of insertion, the cutoff a position in it.
delete_old_tasks(tb, cutoff) ==
    [i \in {j \in DOMAIN tb : tb[j].created_at >= cutoff} |-> tb[i]]

\* ------------------------------------------------- POST /api/convert
\* A registry call is the point where a handler yields; the code up to and
\* including its next registry call is one step.
Respond(c, code, task_id, status, cached) ==
    /\ reqs' = [reqs EXCEPT ![c] =
                   [IdleReq EXCEPT !.resp = [code |-> code, task_id |-> task_id,
                                             status |-> status, cached |-> cached]]]
    /\ began' = [began EXCEPT ![c] = NoneBegan]

\* convert_pdf looking the fingerprint up first, whatever the title.
ConvertBegin_hash_first(c, up) ==
    /\ reqs[c].pc = "idle"
    /\ IF \/ up.filename = NULL
          \/ up.filename = <<>>
          \/ ~EndsWith(Lower(up.filename), Pdf)
       THEN Respond(c, 400, NULL, NULL, FALSE)
       ELSE IF Len(up.bytes) = 0
       THEN Respond(c, 400, NULL, NULL, FALSE)
       ELSE /\ began' = [began EXCEPT ![c] = DoneFor(up.bytes)]
            /\ reqs' = [reqs EXCEPT ![c] =
                   [IdleReq EXCEPT !.pc = "hash", !.pdf_bytes = up.bytes,
                                   !.content_hash = get_pdf_hash(up.bytes),
                                   !.cached = get_cache_by_title(
                                       cache, HashKey(get_pdf_hash(up.bytes)))]]
    /\ UNCHANGED <<tasks, cache, fs, jobs, next_id>>

\* convert_pdf without the check for an empty body.
ConvertBegin_no_empty_check(c, up) ==
    /\ reqs[c].pc = "idle"
    /\ IF \/ up.filename = NULL
          \/ up.filename = <<>>
          \/ ~EndsWith(Lower(up.filename), Pdf)
       THEN Respond(c, 400, NULL, NULL, FALSE)
       ELSE LET title == get_pdf_title(up.bytes)
            IN  /\ began' = [began EXCEPT ![c] = DoneFor(up.bytes)]
                /\ IF title # NULL
                   THEN reqs' = [reqs EXCEPT ![c] =
                            [IdleReq EXCEPT !.pc = "title", !.pdf_bytes = up.bytes,
                                            !.cached = get_cache_by_title(cache, title)]]
                   ELSE reqs' = [reqs EXCEPT ![c] =
                            [IdleReq EXCEPT !.pc = "hash", !.pdf_bytes = up.bytes,
                                            !.content_hash = get_pdf_hash(up.bytes),
                                            !.cached = get_cache_by_title(
                                                cache, HashKey(get_pdf_hash(up.bytes)))]]
    /\ UNCHANGED <<tasks, cache, fs, jobs, next_id>>

\* convert_pdf, lines 67-81: validation, title extraction, title lookup.
ConvertBegin(c, up) ==
    /\ reqs[c].pc = "idle"
    /\ IF \/ up.filename = NULL
          \/ up.filename = <<>>
          \/ ~EndsWith(Lower(up.filename), Pdf)
       THEN Respond(c, 400, NULL, NULL, FALSE)
       ELSE IF Len(up.bytes) = 0
       THEN Respond(c, 400, NULL, NULL, FALSE)
       ELSE LET title == get_pdf_title(up.bytes)
            IN  /\ began' = [began EXCEPT ![c] = DoneFor(up.bytes)]
                /\ IF title # NULL
                   THEN reqs' = [reqs EXCEPT ![c] =
                            [IdleReq EXCEPT !.pc = "title", !.pdf_bytes = up.bytes,
                                            !.cached = get_cache_by_title(cache, title)]]
                   ELSE reqs' = [reqs EXCEPT ![c] =
                            [IdleReq EXCEPT !.pc = "hash", !.pdf_bytes = up.bytes,
                                            !.content_hash = get_pdf_hash(up.bytes),
                                            !.cached = get_cache_by_title(
                                                cache, HashKey(get_pdf_hash(up.bytes)))]]
    /\ UNCHANGED <<tasks, cache, fs, jobs, next_id>>

\* convert_pdf, lines 82-97: title hit, else hash and hash lookup.
ConvertTitle(c) ==
    /\ reqs[c].pc = "title"
    /\ IF reqs[c].cached # NULL /\ task_has_markdown(fs, reqs[c].cached)
       THEN Respond(c, 200, reqs[c].cached, DONE, TRUE)
       ELSE LET content_hash == get_pdf_hash(reqs[c].pdf_bytes)
            IN  /\ reqs' = [reqs EXCEPT ![c] =
                       [@ EXCEPT !.pc = "hash", !.content_hash = content_hash,
                                 !.cached = get_cache_by_title(cache, HashKey(content_hash))]]
                /\ UNCHANGED began
    /\ UNCHANGED <<tasks, cache, fs, jobs, next_id>>

\* convert_pdf, lines 98-113: hash hit, else new id and create_task, which
\* either inserts the row or raises (the request fails, the id is spent).
ConvertHash(c, ok) ==
    /\ reqs[c].pc = "hash"
    /\ IF reqs[c].cached # NULL /\ task_has_markdown(fs, reqs[c].cached)
       THEN /\ ok
            /\ Respond(c, 200, reqs[c].cached, DONE, TRUE)
            /\ UNCHANGED <<tasks, next_id>>
       ELSE /\ next_id <= MaxTasks
            /\ next_id' = next_id + 1
            /\ IF ok
               THEN /\ tasks' = create_task(tasks, uuid4(next_id), next_id)
                    /\ reqs' = [reqs EXCEPT ![c] =
                           [@ EXCEPT !.pc = "created", !.cached = NULL,
                                     !.task_id = uuid4(next_id)]]
                    /\ UNCHANGED began
               ELSE /\ Respond(c, 500, NULL, NULL, FALSE)
                    /\ UNCHANGED tasks
    /\ UNCHANGED <<cache, fs, jobs>>

NewJob(pdf_bytes, content_hash) ==
    [pc |-> "start", pdf_bytes |-> pdf_bytes, content_hash |-> content_hash,
     doc |-> NoDoc, success |-> FALSE, title |-> NULL, error |-> NULL]

\* convert_pdf, lines 116-123: add_task and the Pending answer.
ConvertDispatch(c) ==
    /\ reqs[c].pc = "created"
    /\ jobs' = [t \in DOMAIN jobs \cup {reqs[c].task_id} |->
                   IF t = reqs[c].task_id
                   THEN NewJob(reqs[c].pdf_bytes, reqs[c].content_hash)
                   ELSE jobs[t]]
    /\ Respond(c, 200, reqs[c].task_id, PENDING, FALSE)
    /\ UNCHANGED <<tasks, cache, fs, next_id>>

\* --------------------------------------------------- _process_conversion
Goto(t, pc) == jobs' = [jobs EXCEPT ![t] = [@ EXCEPT !.pc = pc]]

\* The job is over: its frame is gone, its arguments stay on record.
Finish(t, pc) ==
    jobs' = [jobs EXCEPT ![t] = [NewJob(@.pdf_bytes, @.content_hash) EXCEPT !.pc = pc]]

Finished(t) == t \in DOMAIN jobs /\ jobs[t].pc \in {"end", "raised"}

Raise(t, e) == jobs' = [jobs EXCEPT ![t] = [@ EXCEPT !.pc = "except", !.error = e]]

\* What convert_pdf_to_markdown returns into line 33.
Return(t, success, title, error) ==
    jobs' = [jobs EXCEPT ![t] =
                [@ EXCEPT !.pc = "result", !.doc = NoDoc, !.success = success,
                          !.title = title, !.error = error]]

\* line 29: update_task_status(task_id, "processing"), or it raises.
JobStart(t, ok) ==
    /\ t \in DOMAIN jobs /\ jobs[t].pc = "start"
    /\ IF ok
       THEN /\ tasks' = update_task_status(tasks, t, PROCESSING, NULL, NoPath, NULL)
            /\ Goto(t, "convert")
       ELSE /\ Raise(t, StrE)
            /\ UNCHANGED tasks
    /\ UNCHANGED <<cache, fs, reqs, next_id, began>>

\* converter lines 86-92: create_task_dir and converter.convert, which
\* yields a document or raises.
EngineConvert(t, ok, doc) ==
    /\ t \in DOMAIN jobs /\ jobs[t].pc = "convert"
    /\ fs' = [fs EXCEPT ![t] = [@ EXCEPT !.dir = TRUE]]
    /\ IF ok
       THEN jobs' = [jobs EXCEPT ![t] = [@ EXCEPT !.pc = "save_md", !.doc = doc]]
       ELSE Return(t, FALSE, NULL, StrE)
    /\ UNCHANGED <<tasks, cache, reqs, next_id, began>>

\* converter line 100: save_as_markdown writes the pictures into
\* output_artifacts/ and output.md with the engine's own link targets; it
\* raises when the volume fails or the task directory is gone.
SaveMarkdown(t, ok) ==
    /\ t \in DOMAIN jobs /\ jobs[t].pc = "save_md"
    /\ IF ok /\ fs[t].dir
       THEN /\ fs' = [fs EXCEPT ![t] =
                         [@ EXCEPT !.adir = @ \/ jobs[t].doc.arts # {},
                                   !.arts = @ \cup jobs[t].doc.arts,
                                   !.md = [present |-> TRUE, links |-> jobs[t].doc.links]]]
            /\ Goto(t, "rewrite")
       ELSE /\ Return(t, FALSE, NULL, StrE)
            /\ UNCHANGED fs
    /\ UNCHANGED <<tasks, cache, reqs, next_id, began>>

\* converter lines 95, 104-122: read_text, re.sub, write_text, return.
RewriteMarkdown(t, ok) ==
    /\ t \in DOMAIN jobs /\ jobs[t].pc = "rewrite"
    /\ IF ok /\ fs[t].md.present
       THEN /\ fs' = [fs EXCEPT ![t] =
                         [@ EXCEPT !.md = [present |-> TRUE,
                                           links |-> RewriteLinks(t, fs[t].md.links)]]]
            /\ Return(t, TRUE,
                      IF jobs[t].doc.name # <<>> THEN jobs[t].doc.name ELSE Untitled,
                      NULL)
       ELSE /\ Return(t, FALSE, NULL, StrE)
            /\ UNCHANGED fs
    /\ UNCHANGED <<tasks, cache, reqs, next_id, began>>

\* _process_conversion writing the title row before it records 'done'.
JobResult_caches_before_done(t, ok) ==
    /\ t \in DOMAIN jobs /\ jobs[t].pc = "result"
    /\ IF ~ok
       THEN /\ Raise(t, StrE)
            /\ UNCHANGED <<tasks, cache>>
       ELSE IF jobs[t].success
       THEN LET title == IF jobs[t].title # NULL /\ jobs[t].title # <<>>
                         THEN jobs[t].title ELSE Untitled
            IN  /\ cache' = create_cache(cache, title, t)
                /\ jobs' = [jobs EXCEPT ![t] = [@ EXCEPT !.pc = "cache_title", !.title = title]]
                /\ UNCHANGED tasks
       ELSE /\ tasks' = update_task_status(tasks, t, ERROR, NULL, NoPath, jobs[t].error)
            /\ Finish(t, "end")
            /\ UNCHANGED cache
    /\ UNCHANGED <<fs, reqs, next_id, began>>

\* lines 37-41 and 47-48: the status write for the adapter's result.
JobResult(t, ok) ==
    /\ t \in DOMAIN jobs /\ jobs[t].pc = "result"
    /\ IF ~ok
       THEN /\ Raise(t, StrE)
            /\ UNCHANGED tasks
       ELSE IF jobs[t].success
       THEN LET title == IF jobs[t].title # NULL /\ jobs[t].title # <<>>
                         THEN jobs[t].title ELSE Untitled
            IN  /\ tasks' = update_task_status(tasks, t, DONE, title, get_task_dir(t), NULL)
                /\ jobs' = [jobs EXCEPT ![t] = [@ EXCEPT !.pc = "cache_title", !.title = title]]
       ELSE /\ tasks' = update_task_status(tasks, t, ERROR, NULL, NoPath, jobs[t].error)
            /\ Finish(t, "end")
    /\ UNCHANGED <<cache, fs, reqs, next_id, began>>

\* line 43: create_cache(title, "markdown", task_id), or it raises.
CacheByTitle(t, ok) ==
    /\ t \in DOMAIN jobs /\ jobs[t].pc = "cache_title"
    /\ IF ok
       THEN /\ cache' = create_cache(cache, jobs[t].title, t)
            /\ Goto(t, "cache_hash")
       ELSE /\ Raise(t, StrE)
            /\ UNCHANGED cache
    /\ UNCHANGED <<tasks, fs, reqs, next_id, began>>

\* line 45: create_cache(f"hash:{content_hash}", "markdown", task_id).
CacheByHash(t, ok) ==
    /\ t \in DOMAIN jobs /\ jobs[t].pc = "cache_hash"
    /\ IF ok
       THEN /\ cache' = create_cache(cache, HashKey(jobs[t].content_hash), t)
            /\ Finish(t, "end")
       ELSE /\ Raise(t, StrE)
            /\ UNCHANGED cache
    /\ UNCHANGED <<tasks, fs, reqs, next_id, began>>

\* lines 51-53: the handler records the error; if that write raises too the
\* exception leaves the job.
JobExcept(t, ok) ==
    /\ t \in DOMAIN jobs /\ jobs[t].pc = "except"
    /\ IF ok
       THEN /\ tasks' = update_task_status(tasks, t, ERROR, NULL, NoPath, jobs[t].error)
            /\ Finish(t, "end")
       ELSE /\ Finish(t, "raised")
            /\ UNCHANGED tasks
    /\ UNCHANGED <<cache, fs, reqs, next_id, began>>

\* ------------------------------------------------------------ maintenance
\* Retention runs on tasks that are days old: the job of every task it
\* touches is over.
\* cache.delete_old_tasks for a cutoff that removes at least one row.
DeleteOldTasks(cutoff) ==
    /\ \E i \in DOMAIN tasks : tasks[i].created_at < cutoff
    /\ \A i \in DOMAIN tasks : tasks[i].created_at < cutoff => Finished(i)
    /\ tasks' = delete_old_tasks(tasks, cutoff)
    /\ UNCHANGED <<cache, fs, jobs, reqs, next_id, began>>

\* local.delete_task_files on an existing task directory.
DeleteTaskFiles(t) ==
    /\ fs[t].dir
    /\ Finished(t)
    /\ fs' = delete_task_files(fs, t)
    /\ UNCHANGED <<tasks, cache, jobs, reqs, next_id, began>>

Next ==
    \/ \E c \in Clients, up \in Uploads : ConvertBegin(c, up)
    \/ \E c \in Clients : ConvertTitle(c)
    \/ \E c \in Clients, ok \in BOOLEAN : ConvertHash(c, ok)
    \/ \E c \in Clients : ConvertDispatch(c)
    \/ \E t \in Ids, ok \in BOOLEAN : JobStart(t, ok)
    \/ \E t \in Ids, ok \in BOOLEAN, doc \in EngineOutcomes : EngineConvert(t, ok, doc)
    \/ \E t \in Ids, ok \in BOOLEAN : SaveMarkdown(t, ok)
    \/ \E t \in Ids, ok \in BOOLEAN : RewriteMarkdown(t, ok)
    \/ \E t \in Ids, ok \in BOOLEAN : JobResult(t, ok)
    \/ \E t \in Ids, ok \in BOOLEAN : CacheByTitle(t, ok)
    \/ \E t \in Ids, ok \in BOOLEAN : CacheByHash(t, ok)
    \/ \E t \in Ids, ok \in BOOLEAN : JobExcept(t, ok)
    \/ \E cutoff \in 2..(MaxTasks + 1) : DeleteOldTasks(cutoff)
    \/ \E t \in Ids : DeleteTaskFiles(t)

Spec == Init /\ [][Next]_vars

TypeOK ==
    /\ DOMAIN tasks \subseteq Ids
    /\ \A t \in DOMAIN tasks : tasks[t].status \in TaskStatus
    /\ \A k \in DOMAIN cache : cache[k] \in Ids
    /\ DOMAIN jobs \subseteq Ids
    /\ next_id \in 1..(MaxTasks + 1)

\* ------------------------------------------------------------ GET routes
\* The read-only handlers, as functions of the registry and the volume.
\* Answer: status code and detail of the HTTPException, 200 with content.
Http(code, detail) == [code |-> code, detail |-> detail]

\* routes.get_task_status
route_get_task_status(tb, vol, task_id) ==
    IF task_id \notin DOMAIN tb
    THEN [code |-> 404, status |-> NULL, markdown_ready |-> FALSE]
    ELSE [code |-> 200, status |-> tb[task_id].status,
          markdown_ready |-> task_has_markdown(vol, task_id)]

\* routes.get_markdown
route_get_markdown(tb, vol, task_id) ==
    IF task_id \notin DOMAIN tb THEN Http(404, "Task not found")
    ELSE IF tb[task_id].status # DONE THEN Http(400, "Conversion not completed")
    ELSE IF ~get_markdown(vol, task_id).present THEN Http(404, "Markdown file not found")
    ELSE Http(200, "text/markdown")

\* routes.download_markdown
route_download_markdown(tb, vol, task_id) ==
    IF task_id \notin DOMAIN tb THEN Http(404, "Task not found")
    ELSE IF ~task_has_markdown(vol, task_id) THEN Http(400, "Markdown not available")
    ELSE IF ~create_markdown_zip(vol, task_id).present
         THEN Http(500, "Failed to create zip file")
    ELSE Http(200, "application/zip")

\* routes.get_image; FileResponse raises on a path that is no regular file.
route_get_image(tb, vol, task_id, filename) ==
    LET image_path == get_image_path(vol, task_id, filename)
    IN  IF image_path = NoPath THEN Http(404, "Image not found")
        ELSE IF ~PathIsFile(vol, image_path) THEN Http(500, "not a file")
        ELSE Http(200, "image")

\* ------------------------------------------------------------------ claims
\* The step in which client c receives the answer of POST /api/convert.
Answered(c) == reqs[c].resp = NoResp /\ reqs'[c].resp # NoResp /\ reqs'[c].resp.code = 200

\* C1: once a task's recorded status is 'done' or 'error', no later
\* update_task_status call changes that status.
TerminalStatusIsFinal ==
    [][\A t \in DOMAIN tasks \cap DOMAIN tasks' :
          tasks[t].status \in {DONE, ERROR} => tasks'[t].status = tasks[t].status]_vars

\* C2: when convert_pdf answers cached=true with status DONE the registry
\* row of the returned task id exists with status 'done', and when it
\* answers cached=false the row exists with status 'pending'.
AnswerMatchesRegistry ==
    [][\A c \in Clients :
          Answered(c) =>
              LET r == reqs'[c].resp
              IN  /\ r.task_id \in DOMAIN tasks'
                  /\ tasks'[r.task_id].status = (IF r.cached THEN DONE ELSE PENDING)]_vars

\* The position of a task id in the order uuid4 handed the ids out.
IdNum(t) == CHOOSE n \in 1..MaxTasks : uuid4(n) = t

Earliest(S) == CHOOSE t \in S : \A u \in S : IdNum(t) <= IdNum(u)

\* C3: a submission that starts after a task for byte-identical content was
\* recorded Done is answered with a cache hit (cached=true) on that first
\* task's id.
ResubmissionHitsFirstTask ==
    [][\A c \in Clients :
          Answered(c) /\ began[c].same_bytes # {} =>
              /\ reqs'[c].resp.cached
              /\ reqs'[c].resp.task_id = Earliest(began[c].same_bytes)]_vars

\* C4: a submission of different bytes with extractable title T that starts
\* after a task for a document with title T was recorded Done is answered
\* with a cache hit on that task: status DONE, cached=true.
SameTitleHitsDoneTask ==
    [][\A c \in Clients :
          Answered(c) /\ began[c].same_title # {} =>
              /\ reqs'[c].resp.cached
              /\ reqs'[c].resp.status = DONE
              /\ reqs'[c].resp.task_id \in began[c].same_title]_vars

\* C5: no cache row references a task whose recorded status is 'error'.
NoCacheRowForErrorTask ==
    \A k \in DOMAIN cache :
        cache[k] \in DOMAIN tasks => tasks[cache[k]].status # ERROR

Hit(task_id) == [code |-> 200, task_id |-> task_id, status |-> DONE, cached |-> TRUE]

\* C6: convert_pdf answers cached=true for a task id only if output.md of
\* that task exists in the artifact store when the answer is made.
CacheHitOnlyWithOutput ==
    [][\A c \in Clients :
          Answered(c) /\ reqs'[c].resp.cached =>
              /\ reqs'[c].resp.task_id \in Ids
              /\ fs[reqs'[c].resp.task_id].md.present]_vars

\* A cache hit has been answered while another cache row points at a task
\* whose output.md is gone.
CacheHitBesideStaleRow ==
    \E c \in Clients :
        /\ reqs[c].resp.cached
        /\ fs[reqs[c].resp.task_id].md.present
        /\ \E k \in DOMAIN cache : ~fs[cache[k]].md.present

\* A cache row (NULL for none) that still has its output.md.
Usable(row) == row # NULL /\ fs[row].md.present

\* C7: the lookup runs title key first (when the document has an extractable
\* title), then the fingerprint key, and only when both fail allocates a new
\* id, registers it Pending and dispatches the job; a usable title row is
\* answered whatever the fingerprint row says, and a hit creates no task.
LookupOrder ==
    [][\A c \in Clients :
          LET f == reqs[c]
              g == reqs'[c]
              title == get_pdf_title(g.pdf_bytes)
              hashrow(b) == get_cache_by_title(cache, HashKey(get_pdf_hash(b)))
          IN  /\ f.pc = "idle" /\ g.pc # "idle" =>
                    /\ title # NULL => g.pc = "title" /\ g.cached = get_cache_by_title(cache, title)
                    /\ title = NULL => g.pc = "hash" /\ g.cached = hashrow(g.pdf_bytes)
                    /\ tasks' = tasks /\ jobs' = jobs
              /\ f.pc = "title" /\ g # f =>
                    /\ Usable(f.cached) => g.resp = Hit(f.cached) /\ g.pc = "idle"
                    /\ ~Usable(f.cached) =>
                          g.pc = "hash" /\ g.resp = NoResp /\ g.cached = hashrow(f.pdf_bytes)
                    /\ tasks' = tasks /\ jobs' = jobs
              /\ f.pc = "hash" /\ g # f =>
                    /\ Usable(f.cached) =>
                          g.resp = Hit(f.cached) /\ g.pc = "idle" /\ tasks' = tasks
                    /\ ~Usable(f.cached) =>
                          \/ g.resp.code = 500 /\ tasks' = tasks
                          \/ /\ g.pc = "created" /\ g.resp = NoResp
                             /\ g.task_id \notin DOMAIN tasks
                             /\ g.task_id \in DOMAIN tasks'
                             /\ tasks'[g.task_id].status = PENDING
                    /\ jobs' = jobs
              /\ f.pc = "created" /\ g # f =>
                    /\ g.resp = [code |-> 200, task_id |-> f.task_id,
                                 status |-> PENDING, cached |-> FALSE]
                    /\ f.task_id \notin DOMAIN jobs
                    /\ f.task_id \in DOMAIN jobs' /\ jobs'[f.task_id].pc = "start"
                    /\ tasks' = tasks]_vars

\* The title row read by a submission is usable while the fingerprint row of
\* the same bytes points at a different task.
TitleRowBesideOtherHashRow ==
    \E c \in Clients :
        /\ reqs[c].pc = "title"
        /\ Usable(reqs[c].cached)
        /\ HashKey(get_pdf_hash(reqs[c].pdf_bytes)) \in DOMAIN cache
        /\ cache[HashKey(get_pdf_hash(reqs[c].pdf_bytes))] # reqs[c].cached

\* File names a client may ask GET /api/images/{task_id}/{filename} for.
Slash == <<"/">>

AssetRequests ==
    { PngA,
      DotDot,
      DotDot \o Slash \o OutputMd,
      DotDot \o Slash \o DotDot \o Slash \o DotDot \o Slash \o DotDot \o Slash
          \o DATABASE_PATH[1] }

\* The name contains a path separator or a parent-directory segment.
Escaping(filename) ==
    \/ \E i \in 1..Len(filename) : filename[i] = "/"
    \/ filename = DotDot

\* The node lies inside output_artifacts/ of the task.
InAssets(task_id, q) ==
    LET base == STORAGE_DIR \o <<task_id, OutputArtifacts>>
    IN  Len(q) > Len(base) /\ SubSeq(q, 1, Len(base)) = base

\* C8: for every task id and every file name with a path separator or a
\* parent-directory segment get_image_path answers None, and a path it
\* returns never lies outside output_artifacts/ of the task.
NoPathTraversal ==
    \A t \in Ids, fn \in AssetRequests :
        LET p == get_image_path(fs, t, fn)
        IN  /\ Escaping(fn) => p = NoPath
            /\ p # NoPath => InAssets(t, Resolve(fs, p))

\* C9: for a task that exists but is not Done, get_markdown,
\* download_markdown and get_image answer "not ready" (400), not the
\* "not found" (404) of an unknown task id, and never content.
NotReadyUntilDone ==
    \A t \in DOMAIN tasks :
        tasks[t].status # DONE =>
            /\ route_get_markdown(tasks, fs, t).code = 400
            /\ route_download_markdown(tasks, fs, t).code = 400
            /\ \A fn \in AssetRequests : route_get_image(tasks, fs, t, fn).code = 400

ImageExtensions ==
    { <<"p", "n", "g">>, <<"j", "p", "g">>, <<"j", "p", "e", "g">>,
      <<"g", "i", "f">>, <<"w", "e", "b", "p">> }

\* The extension of the name is, whatever its case, on the allow-list.
HasImageExtension(name) ==
    \E e \in ImageExtensions :
        /\ Len(name) > Len(e) + 1
        /\ Lower(SubSeq(name, Len(name) - Len(e), Len(name))) = <<".">> \o e

\* C10: create_markdown_zip answers None when the task has no output.md;
\* otherwise the archive holds output.md and, under images/, exactly the
\* files of output_artifacts/ whose extension is on the allow-list.
BundleHoldsExactlyTheImages ==
    \A t \in Ids :
        LET zip == create_markdown_zip(fs, t)
        IN  /\ ~fs[t].md.present => zip = NoZip
            /\ fs[t].md.present =>
                  /\ zip.present
                  /\ Len(zip.md) = Len(fs[t].md.links)
                  /\ zip.images = {n \in fs[t].arts : HasImageExtension(n)}

\* A bundle is built for a task that stores an upper-case image name and a
\* file that is no image.
BundleWithMixedAssets ==
    \E t \in Ids :
        /\ fs[t].md.present
        /\ {JpgB, TxtC} \subseteq fs[t].arts
        /\ create_markdown_zip(fs, t).images = {PngA, JpgB}

\* The target has the external form /api/images/...
ExternalForm(target) ==
    Len(target) > Len(ApiImages) /\ SubSeq(target, 1, Len(ApiImages)) = ApiImages

\* The last path segment of a link target.
FileName(target) == SplitSlash(target)[Len(SplitSlash(target))]

\* C11: every reference the adapter rewrote into /api/images/{task_id}/{filename}
\* stands in the text of the bundle as images/{filename}, and no reference
\* of the external form remains in the bundled text.
BundleReferencesAreLocal ==
    \A t \in Ids :
        LET zip == create_markdown_zip(fs, t)
        IN  zip.present =>
                \A i \in 1..Len(zip.md) :
                    /\ ~ExternalForm(zip.md[i].target)
                    /\ ExternalForm(fs[t].md.links[i].target) =>
                           zip.md[i].target = ImagesSlash \o FileName(fs[t].md.links[i].target)

\* The upload has no file name, a name that does not end in .pdf, or no
\* content.
InvalidInput(up) ==
    \/ up.filename = NULL
    \/ Len(up.filename) < Len(Pdf)
    \/ Lower(SubSeq(up.filename, Len(up.filename) - Len(Pdf) + 1, Len(up.filename))) # Pdf
    \/ up.bytes = <<>>

\* C12: a submission whose file name is missing or does not end in .pdf, or
\* whose content is empty, is answered with a 400 at once and leaves the
\* task table, the cache table and the storage volume unchanged, allocates
\* no id and dispatches no background job.
InvalidInputRejected ==
    [][\A c \in Clients, up \in Uploads :
          InvalidInput(up) /\ ConvertBegin(c, up) =>
              /\ reqs'[c].pc = "idle"
              /\ reqs'[c].resp = [code |-> 400, task_id |-> NULL,
                                  status |-> NULL, cached |-> FALSE]
              /\ tasks' = tasks /\ cache' = cache /\ fs' = fs
              /\ jobs' = jobs /\ next_id' = next_id]_vars

\* A submission was rejected while the registry holds a task, a cache row
\* and a job.
RejectedBesideTasks ==
    \E c \in Clients :
        /\ reqs[c].resp.code = 400
        /\ DOMAIN tasks # {} /\ DOMAIN cache # {} /\ DOMAIN jobs # {}

\* The cache keys in use for fingerprints: those of the dispatched jobs and
\* of the submissions that have computed their hash.
FingerprintKeys ==
    {HashKey(jobs[t].content_hash) : t \in DOMAIN jobs}
        \cup {HashKey(reqs[c].content_hash) :
                  c \in {d \in Clients : reqs[d].content_hash # NULL}}

\* The cache keys in use for titles: those looked up by the submissions and
\* those written by the jobs.
TitleKeys ==
    {get_pdf_title(reqs[c].pdf_bytes) : c \in {d \in Clients : reqs[d].pc = "title"}}
        \cup {jobs[t].title :
                  t \in {u \in DOMAIN jobs : jobs[u].pc \in {"cache_title", "cache_hash"}}}

\* C13: the key written or looked up for a title never equals the key
\* written or looked up for a fingerprint.
CacheKeySpacesDisjoint == TitleKeys \cap FingerprintKeys = {}

\* C14: the completed_at of a task row is set exactly when its status is
\* 'done' or 'error'.
CompletedAtIffTerminal ==
    \A t \in DOMAIN tasks :
        tasks[t].completed_at # NULL <=> tasks[t].status \in {DONE, ERROR}

\* One task is being processed, without completed_at, while another has
\* ended and carries it.
ProcessingBesideCompleted ==
    \E t \in DOMAIN tasks, u \in DOMAIN tasks :
        /\ tasks[t].status = PROCESSING /\ tasks[t].completed_at = NULL
        /\ tasks[u].status \in {DONE, ERROR} /\ tasks[u].completed_at = Stamp

\* C15: a task row is created 'pending', leaves 'pending' only for
\* 'processing', leaves 'processing' only for 'done' or 'error', and is
\* 'processing' before the adapter is invoked; no step takes a row from
\* 'pending' straight to 'done' or 'error'.
TransitionsAreOrdered ==
    [][/\ \A t \in DOMAIN tasks' \ DOMAIN tasks : tasks'[t].status = PENDING
       /\ \A t \in DOMAIN tasks \cap DOMAIN tasks' :
             /\ tasks[t].status = PENDING => tasks'[t].status \in {PENDING, PROCESSING}
             /\ tasks[t].status = PROCESSING =>
                    tasks'[t].status \in {PROCESSING, DONE, ERROR}
             /\ (t \in DOMAIN jobs' /\ jobs'[t].pc = "convert") =>
                    tasks'[t].status = PROCESSING]_vars

\* The next step of the background job of task t, whatever its outcome.
JobStep(t) ==
    \/ \E ok \in BOOLEAN : JobStart(t, ok)
    \/ \E ok \in BOOLEAN, doc \in EngineOutcomes : EngineConvert(t, ok, doc)
    \/ \E ok \in BOOLEAN : SaveMarkdown(t, ok)
    \/ \E ok \in BOOLEAN : RewriteMarkdown(t, ok)
    \/ \E ok \in BOOLEAN : JobResult(t, ok)
    \/ \E ok \in BOOLEAN : CacheByTitle(t, ok)
    \/ \E ok \in BOOLEAN : CacheByHash(t, ok)
    \/ \E ok \in BOOLEAN : JobExcept(t, ok)

\* The handler that created a task goes on to dispatch its job, and the
\* event loop runs every dispatched job: each engine call returns and each
\* awaited registry call comes back, with a result or an exception.
FairSpec ==
    /\ Spec
    /\ \A c \in Clients : WF_vars(ConvertDispatch(c))
    /\ \A t \in Ids : WF_vars(JobStep(t))

\* C16: every task created by a submission eventually has the recorded
\* status 'done' or 'error'.
EveryTaskTerminates ==
    \A t \in Ids :
        (t \in DOMAIN tasks) ~> (t \in DOMAIN tasks /\ tasks[t].status \in {DONE, ERROR})

\* C17: whenever output.md of a task exists on the volume, so that
\* markdown_ready is true and the readers can open it, none of its links
\* still has a target of the engine that the adapter rewrites.
ReadyOutputIsRewritten ==
    \A t \in Ids :
        task_has_markdown(fs, t) =>
            RewriteLinks(t, fs[t].md.links) = fs[t].md.links

ErrorMessageIffError ==
    \A t \in DOMAIN tasks :
        tasks[t].error_message # NULL <=> tasks[t].status = ERROR

\* The adapter has handed a failure of the engine or of the volume back to
\* the job of task t.
AdapterFailed(t) == t \in DOMAIN jobs /\ jobs[t].pc = "result" /\ ~jobs[t].success

\* C19: a failure of the engine or of a storage write inside the job ends
\* with the task in status 'error' and an error_message, and at all times a
\* row has an error_message exactly when its status is 'error'.
FailuresAreRecorded ==
    /\ []ErrorMessageIffError
    /\ \A t \in Ids :
           AdapterFailed(t) ~>
               (t \in DOMAIN tasks /\ tasks[t].status = ERROR
                                   /\ tasks[t].error_message # NULL)

\* C20: when convert_pdf answers cached=true with task id A, the document
\* that the job of A converted has the same bytes as the submitted one or
\* the same extractable title.
CacheHitIsSound ==
    [][\A c \in Clients :
          Answered(c) /\ reqs'[c].resp.cached =>
              LET A == reqs'[c].resp.task_id
                  submitted == reqs[c].pdf_bytes
              IN  /\ A \in DOMAIN jobs
                  /\ \/ jobs[A].pdf_bytes = submitted
                     \/ /\ get_pdf_title(submitted) # NULL
                        /\ get_pdf_title(jobs[A].pdf_bytes) = get_pdf_title(submitted)]_vars

\* The tasks whose job converts these bytes and whose recorded status is
\* still 'pending' or 'processing'.
InFlight(pdf_bytes) ==
    {t \in DOMAIN tasks \cap DOMAIN jobs :
        /\ jobs[t].pdf_bytes = pdf_bytes
        /\ tasks[t].status \in {PENDING, PROCESSING}}

\* Every cache row written by a step names a task that is recorded 'done'
\* when the row is written.
RowsWrittenAfterDone ==
    \A k \in DOMAIN cache' :
        (k \notin DOMAIN cache \/ cache'[k] # cache[k]) =>
            /\ cache'[k] \in DOMAIN tasks
            /\ tasks[cache'[k]].status = DONE

\* C21: every cache row is written after 'done' was recorded for its task,
\* and a submission answered while a task for identical bytes is still
\* 'pending' or 'processing' gets no cache hit and creates a new, distinct
\* task.
InFlightSubmissionCreatesTask ==
    [][/\ RowsWrittenAfterDone
       /\ \A c \in Clients :
             Answered(c) /\ InFlight(reqs[c].pdf_bytes) # {} =>
                 /\ ~reqs'[c].resp.cached
                 /\ reqs'[c].resp.task_id \notin DOMAIN jobs
                 /\ reqs'[c].resp.task_id \in DOMAIN tasks'
                 /\ tasks'[reqs'[c].resp.task_id].status = PENDING]_vars

\* C21 as amended: every cache row is written after 'done' was recorded for
\* its task, and a submission answered while a task for identical bytes is
\* still 'pending' or 'processing' is answered either with a cache hit on a
\* task that is not in flight or with a new, distinct 'pending' task.
InFlightTaskIsNeverHit ==
    [][/\ RowsWrittenAfterDone
       /\ \A c \in Clients :
             Answered(c) /\ InFlight(reqs[c].pdf_bytes) # {} =>
                 LET r == reqs'[c].resp
                 IN  /\ r.cached =>
                            \A t \in DOMAIN tasks :
                                tasks[t].status \in {PENDING, PROCESSING} => r.task_id # t
                     /\ ~r.cached =>
                            /\ r.task_id \notin DOMAIN jobs
                            /\ r.task_id \in DOMAIN tasks'
                            /\ tasks'[r.task_id].status = PENDING]_vars

\* A cache hit on one task has been answered while another task for the
\* same bytes is still in flight.
HitBesideInFlightTwin ==
    \E c \in Clients :
        /\ reqs[c].resp.cached
        /\ reqs[c].resp.task_id \in DOMAIN jobs
        /\ InFlight(jobs[reqs[c].resp.task_id].pdf_bytes) # {}

====
